---- MODULE Spec2Model ----
(***************************************************************************)
(* Quick Slot: appointment booking for independent practitioners.          *)
(*                                                                         *)
(* The store (doctors, recurring_schedules, time_slots, appointments) is   *)
(* the hosted relational backend every screen talks to.  Each screen is a  *)
(* client with local React state; every `await` on the store is a point    *)
(* where other clients may run.                                            *)
(*                                                                         *)
(* Dates are day numbers (day 0 is a Sunday, so weekday = date % 7 with    *)
(* Sunday = 0); times of day are minutes after midnight, which order the   *)
(* same way as the zero-padded HH:MM strings of the source.                *)
(***************************************************************************)
EXTENDS Integers, Sequences, FiniteSets, TLC

(***************************************************************************)
(* Bounds of the model.                                                    *)
(***************************************************************************)
MaxSlotId == 2
MaxApptId == 2
MaxSchedId == 2
MaxToday == 1
\* rows a store of any contents holds, and ids it may hand out
MaxStoredSlots == 2
MaxStoreSlotId == 30
MaxUserId == 3
MaxQuerySlots == 3

Doctors == {1, 2}
Patients == {1, 2}
Sessions == {1, 2}

(***************************************************************************)
(* Program constants.                                                      *)
(***************************************************************************)
DAYS_AHEAD == 15
BOOKING_WINDOW_DAYS == 30
WEEKDAYS == 0..6
INTERVAL_OPTIONS == {5, 10, 15, 20, 25, 30}
TerminalStatuses == {"completed", "no_show", "cancelled"}
Statuses == {"confirmed"} \cup TerminalStatuses

NoDoctor == 0
NoSlot == 0

VARIABLES
    today,               \* the current date, as every client's clock reads it
    fkPolicy,            \* what the store does when a referenced slot is deleted
    time_slots,          \* table time_slots
    appointments,        \* table appointments
    recurring_schedules, \* table recurring_schedules
    nextSlotId, nextApptId, nextSchedId,
    booking,             \* per patient: the public booking page's state
    apptPage,            \* per session: the appointment list's state
    account,             \* per practitioner: the account page's state
    usernameUnique,      \* whether the store keeps doctors.username unique
    emailConfirmation,   \* whether the auth provider asks new users to verify
    doctors,             \* table doctors
    auth_users,          \* the auth provider's principals
    nextUserId,
    signupPage,          \* per visitor: the sign-up page's state
    callback,            \* per principal: a run of the auth callback
    accountLoad,         \* per tab: the account page's fetchDoctorData
    dashboard,           \* per tab: the dashboard's state
    apptLoad,            \* per session: the appointment list's loader
    signinPage,          \* per visitor: the sign-in page's state
    changelog,           \* the keys of VERSION_CHANGELOG, as the file lists them
    versions             \* the versions the changelog page has rendered

screenVars == <<dashboard, apptLoad, signinPage>>

docsVars == <<changelog, versions>>

identityVars == <<usernameUnique, emailConfirmation, doctors, auth_users,
                  nextUserId, signupPage, callback, accountLoad, screenVars,
                  docsVars>>

vars == <<today, fkPolicy, time_slots, appointments, recurring_schedules,
          nextSlotId, nextApptId, nextSchedId, booking, apptPage, account,
          identityVars>>

storeVars == <<time_slots, appointments, recurring_schedules,
               nextSlotId, nextApptId, nextSchedId>>


(***************************************************************************)
(* The store.                                                              *)
(***************************************************************************)
Weekday(date) == date % 7

SlotById(id) == CHOOSE s \in time_slots : s.id = id

SlotExists(id) == \E s \in time_slots : s.id = id

\* a store without the uniqueness constraint
NoUniqueConstraint(slot_id) == FALSE

\* the uniqueness constraint on appointments.slot_id (error code 23505)
UniqueViolation(slot_id) == \E a \in appointments : a.slot_id = slot_id

\* appointments.slot_id references time_slots.id (error code 23503)
ForeignKeyViolation(slot_id) == ~SlotExists(slot_id)

\* the error code of an insert into appointments; "" when the row is stored
InsertAppointmentError(slot_id) ==
    IF UniqueViolation(slot_id) THEN "23505"
    ELSE IF ForeignKeyViolation(slot_id) THEN "23503"
    ELSE ""

\* an order by start_time alone
SlotBeforeByStartTime(x, y) ==
    \/ x.start_time < y.start_time
    \/ x.start_time = y.start_time /\ x.id < y.id

SlotBefore(x, y) ==
    \/ x.slot_date < y.slot_date
    \/ x.slot_date = y.slot_date /\ x.start_time < y.start_time
    \/ x.slot_date = y.slot_date /\ x.start_time = y.start_time /\ x.id < y.id

RECURSIVE OrderSlots(_)
\* .order('slot_date', asc).order('start_time', asc)
OrderSlots(S) ==
    IF S = {} THEN <<>>
    ELSE LET m == CHOOSE x \in S : \A y \in S : x = y \/ SlotBefore(x, y)
         IN  <<m>> \o OrderSlots(S \ {m})

(***************************************************************************)
(* The public booking page /{username} (PatientBookingPage).               *)
(***************************************************************************)
SlotTakenBookingMessage == "This time slot is no longer available. Please choose another time."
FailedBookingMessage == "Failed to book appointment. Please try again."

\* the availability query without its is_booked filter
AvailableSlotsIgnoringBooked(doctor_id, now) ==
    { s \in time_slots :
        /\ s.doctor_id = doctor_id
        /\ s.is_available = TRUE
        /\ s.slot_date >= now
        /\ s.slot_date <= now + BOOKING_WINDOW_DAYS }

\* the availability query of fetchDoctorAndSlots
AvailableSlots(doctor_id, now) ==
    { s \in time_slots :
        /\ s.doctor_id = doctor_id
        /\ s.is_available = TRUE
        /\ s.is_booked = FALSE
        /\ s.slot_date >= now
        /\ s.slot_date <= now + BOOKING_WINDOW_DAYS }

DoctorNotFoundMessage == "Doctor with username not found. Please check the URL."

\* the username in the URL /{username}: practitioner n's page is /dr<n>
UrlUsername(n) == <<"d", "r", ToString(n)>>

\* a lookup that falls back on any stored practitioner
AnyDoctorNamed(username) ==
    LET rows == { d \in doctors : d.username = UrlUsername(username) }
    IN  IF Cardinality(rows) = 1 THEN rows
        ELSE IF doctors = {} THEN {}
        ELSE {CHOOSE d \in doctors : TRUE}

\* select * from doctors where username = :username, .single(): the row, or
\* null with an error
DoctorNamed(username) ==
    LET rows == { d \in doctors : d.username = UrlUsername(username) }
    IN  IF Cardinality(rows) = 1 THEN rows ELSE {}

\* selectedRow: the listed slot that was clicked, or none; appointmentData:
\* the date and time of the insert that is under way
InitialBooking ==
    [ pc |-> "closed", username |-> NoDoctor, doctor |-> NoDoctor,
      timeSlots |-> <<>>, selectedSlot |-> NoSlot, submitted |-> NoSlot,
      error |-> "", success |-> FALSE,
      selectedRow |-> {}, appointmentData |-> {} ]

\* an appointment that takes its time from the end of the slot
AppointmentTimesFromEnd(slot) ==
    [appointment_date |-> slot.slot_date, appointment_time |-> slot.end_time]

\* appointment_date and appointment_time of appointmentData
AppointmentTimes(slot) ==
    [appointment_date |-> slot.slot_date, appointment_time |-> slot.start_time]

\* the page is opened (or reloaded): useEffect starts fetchDoctorAndSlots
OpenPage(p, username) ==
    /\ booking[p].pc \in {"closed", "ready"}
    /\ booking' = [booking EXCEPT ![p] =
                      [InitialBooking EXCEPT !.pc = "loading", !.username = username]]
    /\ UNCHANGED <<identityVars, today, fkPolicy, storeVars, apptPage, account>>

\* fetchDoctorAndSlots: the doctor lookup and the slot query are answered
FetchDoctorAndSlots(p) ==
    /\ booking[p].pc = "loading"
    /\ LET doctorData == DoctorNamed(booking[p].username)
       IN  booking' = [booking EXCEPT ![p] =
              IF doctorData = {}
              THEN [@ EXCEPT !.pc = "ready", !.error = DoctorNotFoundMessage]
              ELSE LET id == (CHOOSE d \in doctorData : TRUE).id
                   IN  [@ EXCEPT !.pc = "ready", !.doctor = id,
                          !.timeSlots = OrderSlots(AvailableSlots(id, today))]]
    /\ UNCHANGED <<identityVars, today, fkPolicy, storeVars, apptPage, account>>

\* the "Doctor Not Found" view is on screen
NotFoundView(p) ==
    /\ booking[p].pc = "ready"
    /\ booking[p].error # ""
    /\ booking[p].doctor = NoDoctor

\* the main view (slot list and form) is on screen
MainView(p) ==
    /\ booking[p].pc \in {"ready", "inserting"}
    /\ ~booking[p].success
    /\ ~NotFoundView(p)

\* a click on the i-th listed slot
SelectSlot(p, i) ==
    /\ MainView(p)
    /\ i \in 1..Len(booking[p].timeSlots)
    /\ booking' = [booking EXCEPT ![p].selectedSlot = booking[p].timeSlots[i].id,
                                  ![p].selectedRow = {booking[p].timeSlots[i]}]
    /\ UNCHANGED <<identityVars, today, fkPolicy, storeVars, apptPage, account>>

\* onSubmit up to its await: the insert is sent for the slot selected now
OnSubmit(p) ==
    /\ booking[p].pc = "ready"
    /\ ~booking[p].success
    /\ booking[p].selectedSlot # NoSlot
    /\ booking[p].doctor # NoDoctor
    /\ booking' = [booking EXCEPT ![p].pc = "inserting",
                                  ![p].submitted = booking[p].selectedSlot,
                                  ![p].appointmentData =
                                      { AppointmentTimes(slot) :
                                          slot \in booking[p].selectedRow },
                                  ![p].error = ""]
    /\ UNCHANGED <<identityVars, today, fkPolicy, storeVars, apptPage, account>>

\* onSubmit taking the foreign-key code for the conflict code
BookingErrorMessageWrongCode(code) ==
    IF code = "23503" THEN SlotTakenBookingMessage ELSE FailedBookingMessage

\* the message onSubmit shows for a rejected insert
BookingErrorMessage(code) ==
    IF code = "23505" THEN SlotTakenBookingMessage ELSE FailedBookingMessage

\* onSubmit after its await: the store has answered the insert
InsertAppointment(p) ==
    /\ booking[p].pc = "inserting"
    /\ LET slot_id == booking[p].submitted
           code == InsertAppointmentError(slot_id)
       IN  IF code # ""
           THEN /\ booking' = [booking EXCEPT ![p].pc = "ready",
                                              ![p].error = BookingErrorMessage(code)]
                /\ UNCHANGED <<appointments, nextApptId>>
           ELSE /\ nextApptId <= MaxApptId
                /\ appointments' = appointments \cup
                      { [ id |-> nextApptId, slot_id |-> slot_id,
                          doctor_id |-> booking[p].doctor, patient |-> p,
                          status |-> "confirmed",
                          appointment_date |-> data.appointment_date,
                          appointment_time |-> data.appointment_time ] :
                        data \in booking[p].appointmentData }
                /\ nextApptId' = nextApptId + 1
                \* setSuccess(true), then fetchDoctorAndSlots() starts
                /\ booking' = [booking EXCEPT ![p].pc = "loading",
                                              ![p].success = TRUE]
    /\ UNCHANGED <<identityVars, today, fkPolicy, time_slots, recurring_schedules,
                   nextSlotId, nextSchedId, apptPage, account>>

\* "Book Another Appointment" on the confirmation view
BookAnother(p) ==
    /\ booking[p].pc = "ready"
    /\ booking[p].success
    /\ booking' = [booking EXCEPT ![p].success = FALSE,
                                  ![p].selectedSlot = NoSlot,
                                  ![p].selectedRow = {}]
    /\ UNCHANGED <<identityVars, today, fkPolicy, storeVars, apptPage, account>>

(***************************************************************************)
(* The appointment list (AppointmentsPage).                                *)
(***************************************************************************)
\* select *, time_slots!inner(...) from appointments where doctor_id = user.id
AppointmentsOf(user) ==
    { a \in appointments : a.doctor_id = user /\ SlotExists(a.slot_id) }

\* fetchAppointments: the list is loaded into the session's local state
FetchAppointments(s, user) ==
    /\ apptPage' = [apptPage EXCEPT ![s] =
            [ user |-> user,
              appointments |-> { [id |-> a.id, status |-> a.status] :
                                    a \in AppointmentsOf(user) } ]]
    /\ UNCHANGED <<identityVars, today, fkPolicy, storeVars, booking, account>>

\* the status buttons rendered for a listed appointment
StatusButtons(status) ==
    IF status = "confirmed" THEN {"completed", "no_show", "cancelled"} ELSE {}

\* a cancellation that removes the appointment row
UpdateStatusRowsDroppingCancelled(appointmentId, newStatus) ==
    IF newStatus = "cancelled"
    THEN { a \in appointments : a.id # appointmentId }
    ELSE { IF a.id = appointmentId THEN [a EXCEPT !.status = newStatus] ELSE a :
             a \in appointments }

\* update appointments set status = newStatus where id = appointmentId
UpdateStatusRows(appointmentId, newStatus) ==
    { IF a.id = appointmentId THEN [a EXCEPT !.status = newStatus] ELSE a :
        a \in appointments }

\* a click on a status button of a listed appointment: updateAppointmentStatus
UpdateAppointmentStatus(s, appointmentId, newStatus) ==
    /\ \E l \in apptPage[s].appointments :
          l.id = appointmentId /\ newStatus \in StatusButtons(l.status)
    /\ appointments' = UpdateStatusRows(appointmentId, newStatus)
    /\ apptPage' = [apptPage EXCEPT ![s].appointments =
            { IF l.id = appointmentId THEN [l EXCEPT !.status = newStatus] ELSE l :
                l \in apptPage[s].appointments }]
    /\ UNCHANGED <<identityVars, today, fkPolicy, time_slots, recurring_schedules,
                   nextSlotId, nextApptId, nextSchedId, booking, account>>

(***************************************************************************)
(* The account page (AccountsPage): ad-hoc slots, recurring schedules.     *)
(***************************************************************************)
Message(text, count) == [text |-> text, count |-> count]

NoMessage == Message("", 0)

\* Strings of the schedule form are sequences of character codes: the
\* digits are 48..57, the colon is 58.
EmptyString == <<>>

\* the value of an <input type="time">: zero-padded HH:MM
TimeText(hours, minutes) ==
    << 48 + (hours \div 10), 48 + (hours % 10), 58,
       48 + (minutes \div 10), 48 + (minutes % 10) >>

\* the time of day the store reads from 'HH:MM', in minutes
TimeOfDay(text) ==
    ((text[1] - 48) * 10 + (text[2] - 48)) * 60
        + (text[4] - 48) * 10 + (text[5] - 48)

\* a < b on strings: the first differing character decides, a proper
\* prefix is smaller
StringLess(a, b) ==
    \/ \E i \in 1..Len(a) :
          /\ i <= Len(b)
          /\ a[i] < b[i]
          /\ \A j \in 1..(i - 1) : a[j] = b[j]
    \/ /\ Len(a) < Len(b)
       /\ \A j \in 1..Len(a) : a[j] = b[j]

\* scheduleForm's defaultValues and reset values
InitialScheduleForm ==
    [start_time |-> EmptyString, end_time |-> EmptyString, interval_minutes |-> 10]

InitialAccount ==
    [ selectedWeekdays |-> <<>>, scheduleForm |-> InitialScheduleForm,
      isGenerating |-> FALSE, message |-> NoMessage, error |-> "" ]

\* onSlotSubmit: one ad-hoc slot is inserted
OnSlotSubmit(d, date, startTime, endTime) ==
    /\ nextSlotId <= MaxSlotId
    /\ time_slots' = time_slots \cup
          {[ id |-> nextSlotId, doctor_id |-> d, slot_date |-> date,
             start_time |-> startTime, end_time |-> endTime,
             is_available |-> TRUE, is_booked |-> FALSE ]}
    /\ nextSlotId' = nextSlotId + 1
    /\ account' = [account EXCEPT
            ![d].message = Message("Time slot added successfully!", 0),
            ![d].error = ""]
    /\ UNCHANGED <<identityVars, today, fkPolicy, appointments, recurring_schedules,
                   nextApptId, nextSchedId, booking, apptPage>>

\* delete from time_slots where id = slotId, as the store carries it out
DeleteSlotRejected(slotId) ==
    fkPolicy = "restrict" /\ \E a \in appointments : a.slot_id = slotId

\* a store that deletes the slot and keeps the rows that reference it
AppointmentsKeptAfterSlotDelete(slotId) == appointments

\* the appointments left when the store deletes the slot: the rows that
\* reference it go with it
AppointmentsAfterSlotDelete(slotId) ==
    { a \in appointments : a.slot_id # slotId }

\* deleteSlot: the trash button of a listed slot
DeleteSlot(d, slotId) ==
    /\ \E s \in time_slots : s.id = slotId /\ s.doctor_id = d
    /\ IF DeleteSlotRejected(slotId)
       THEN /\ account' = [account EXCEPT ![d].error = "Error deleting slot"]
            /\ UNCHANGED <<time_slots, appointments>>
       ELSE /\ time_slots' = { s \in time_slots : s.id # slotId }
            /\ appointments' = AppointmentsAfterSlotDelete(slotId)
            /\ account' = [account EXCEPT
                    ![d].message = Message("Time slot deleted", 0)]
    /\ UNCHANGED <<identityVars, today, fkPolicy, recurring_schedules,
                   nextSlotId, nextApptId, nextSchedId, booking, apptPage>>

RECURSIVE SortNumbers(_)
\* Array.prototype.sort on the weekday numbers 0..6
SortNumbers(S) ==
    IF S = {} THEN <<>>
    ELSE LET m == CHOOSE x \in S : \A y \in S : x <= y
         IN  <<m>> \o SortNumbers(S \ {m})

Elements(seq) == { seq[i] : i \in 1..Len(seq) }

\* toggleWeekday
ToggleWeekday(d, weekday) ==
    /\ account' = [account EXCEPT ![d].selectedWeekdays =
            IF weekday \in Elements(account[d].selectedWeekdays)
            THEN SelectSeq(account[d].selectedWeekdays, LAMBDA x : x # weekday)
            ELSE SortNumbers(Elements(account[d].selectedWeekdays) \cup {weekday})]
    /\ UNCHANGED <<identityVars, today, fkPolicy, storeVars, booking, apptPage>>

\* the practitioner fills in the schedule form
EditScheduleForm(d, start_time, end_time, interval_minutes) ==
    /\ account' = [account EXCEPT ![d].scheduleForm =
            [ start_time |-> start_time, end_time |-> end_time,
              interval_minutes |-> interval_minutes ]]
    /\ UNCHANGED <<identityVars, today, fkPolicy, storeVars, booking, apptPage>>

\* scheduleSchema: start_time and end_time not empty,
\* interval_minutes: z.number().min(5).max(30)
ScheduleSchemaAccepts(data) ==
    /\ Len(data.start_time) >= 1
    /\ Len(data.end_time) >= 1
    /\ data.interval_minutes >= 5
    /\ data.interval_minutes <= 30

\* a check that refuses only a start after the end
StartAfterEnd(data) == StringLess(data.end_time, data.start_time)

\* data.start_time >= data.end_time
StartNotBeforeEnd(data) == ~StringLess(data.start_time, data.end_time)

\* onScheduleSubmit, called by handleSubmit when the schema accepts the form
OnScheduleSubmit(d) ==
    LET data == account[d].scheduleForm
    IN
    /\ ScheduleSchemaAccepts(data)
    /\ IF Len(account[d].selectedWeekdays) = 0
       THEN /\ account' = [account EXCEPT ![d].message = NoMessage,
                                          ![d].error = "Please select at least one day"]
            /\ UNCHANGED <<recurring_schedules, nextSchedId>>
       ELSE IF StartNotBeforeEnd(data)
       THEN /\ account' = [account EXCEPT ![d].message = NoMessage,
                                          ![d].error = "End time must be after start time"]
            /\ UNCHANGED <<recurring_schedules, nextSchedId>>
       ELSE /\ nextSchedId <= MaxSchedId
            /\ recurring_schedules' = recurring_schedules \cup
                  {[ id |-> nextSchedId, doctor_id |-> d,
                     weekdays |-> Elements(account[d].selectedWeekdays),
                     start_time |-> TimeOfDay(data.start_time),
                     end_time |-> TimeOfDay(data.end_time),
                     interval_minutes |-> data.interval_minutes,
                     is_active |-> TRUE ]}
            /\ nextSchedId' = nextSchedId + 1
            /\ account' = [account EXCEPT
                    ![d].message = Message("Schedule added successfully!", 0),
                    ![d].error = "",
                    ![d].scheduleForm = InitialScheduleForm,
                    ![d].selectedWeekdays = <<>>]
    /\ UNCHANGED <<identityVars, today, fkPolicy, time_slots, appointments,
                   nextSlotId, nextApptId, booking, apptPage>>

\* deleteSchedule
DeleteSchedule(d, scheduleId) ==
    /\ \E s \in recurring_schedules : s.id = scheduleId /\ s.doctor_id = d
    /\ recurring_schedules' = { s \in recurring_schedules : s.id # scheduleId }
    /\ account' = [account EXCEPT ![d].message = Message("Schedule deleted", 0)]
    /\ UNCHANGED <<identityVars, today, fkPolicy, time_slots, appointments,
                   nextSlotId, nextApptId, nextSchedId, booking, apptPage>>

(***************************************************************************)
(* Slot generation: the stored procedure                                   *)
(* generate_slots_from_schedules(doctor_uuid, days_ahead).                 *)
(***************************************************************************)
ActiveSchedules(doctor_uuid) ==
    { s \in recurring_schedules : s.doctor_id = doctor_uuid /\ s.is_active }

\* the dates [today, today + days_ahead)
HorizonDates(now, days_ahead) == now..(now + days_ahead - 1)

\* a slicing that keeps the last, partial interval
SliceCountRoundedUp(s) ==
    (s.end_time - s.start_time + s.interval_minutes - 1) \div s.interval_minutes

\* the number of whole intervals between start_time and end_time
SliceCount(s) == (s.end_time - s.start_time) \div s.interval_minutes

\* the slots [t, t + interval) of schedule s on one date
SlicesOf(s, date) ==
    { [ schedule |-> s.id, doctor_id |-> s.doctor_id, slot_date |-> date,
        start_time |-> s.start_time + k * s.interval_minutes,
        end_time |-> s.start_time + (k + 1) * s.interval_minutes ] :
      k \in 0..(SliceCount(s) - 1) }

\* every slot the active schedules of the practitioner call for in the horizon
EmittedSlots(doctor_uuid, now, days_ahead) ==
    UNION { UNION { SlicesOf(s, date) :
                      date \in { x \in HorizonDates(now, days_ahead) :
                                    Weekday(x) \in s.weekdays } } :
            s \in ActiveSchedules(doctor_uuid) }

SameSlotKey(x, y) ==
    /\ x.doctor_id = y.doctor_id
    /\ x.slot_date = y.slot_date
    /\ x.start_time = y.start_time

\* a procedure that inserts without looking for the key
SlotKeyNeverTaken(c) == FALSE

\* a row with this (practitioner, date, start_time) is already stored
SlotKeyTaken(c) == \E s \in time_slots : SameSlotKey(s, c)

\* the orders in which the procedure may visit the active schedules
ScheduleOrders(doctor_uuid) ==
    LET ids == { s.id : s \in ActiveSchedules(doctor_uuid) }
    IN  { f \in [ids -> 1..Cardinality(ids)] :
            \A a, b \in ids : a # b => f[a] # f[b] }

\* the emitted slots that are inserted: no stored row has their key, and of
\* two emitted slots with one key the schedule visited first wins
CreatedSlots(doctor_uuid, now, days_ahead, order) ==
    LET emitted == EmittedSlots(doctor_uuid, now, days_ahead)
    IN  { c \in emitted :
            /\ ~SlotKeyTaken(c)
            /\ \A c2 \in emitted :
                  (SameSlotKey(c, c2) /\ c2.schedule # c.schedule)
                      => order[c.schedule] < order[c2.schedule] }

\* the rows inserted for the created slots, with fresh ids
GeneratedRows(created, firstId) ==
    { [ id |-> firstId + Cardinality({ x \in created :
                  \/ x.slot_date < c.slot_date
                  \/ x.slot_date = c.slot_date /\ x.start_time < c.start_time }),
        doctor_id |-> c.doctor_id, slot_date |-> c.slot_date,
        start_time |-> c.start_time, end_time |-> c.end_time,
        is_available |-> TRUE, is_booked |-> FALSE ] : c \in created }

\* a procedure that counts every slot its schedules call for
CountEmittedSlots(doctor_uuid, days_ahead, order) ==
    LET created == CreatedSlots(doctor_uuid, today, days_ahead, order)
    IN  [ time_slots |-> time_slots \cup GeneratedRows(created, nextSlotId),
          data |-> Cardinality({ <<c.slot_date, c.start_time>> :
                       c \in EmittedSlots(doctor_uuid, today, days_ahead) }) ]

\* a procedure that clears the practitioner's slots of the horizon and
\* builds them again
RegenerateSlots(doctor_uuid, days_ahead, order) ==
    LET kept == { s \in time_slots :
                    \/ s.doctor_id # doctor_uuid
                    \/ s.slot_date \notin HorizonDates(today, days_ahead) }
        emitted == EmittedSlots(doctor_uuid, today, days_ahead)
        created == { c \in emitted :
                       /\ \A s \in kept : ~SameSlotKey(s, c)
                       /\ \A c2 \in emitted :
                             (SameSlotKey(c, c2) /\ c2.schedule # c.schedule)
                                 => order[c.schedule] < order[c2.schedule] }
    IN  [ time_slots |-> kept \cup GeneratedRows(created, nextSlotId),
          data |-> Cardinality(created) ]

\* the procedure's result for one visiting order: the table afterwards and
\* the count it returns
generate_slots_from_schedules(doctor_uuid, days_ahead, order) ==
    LET created == CreatedSlots(doctor_uuid, today, days_ahead, order)
    IN  [ time_slots |-> time_slots \cup GeneratedRows(created, nextSlotId),
          data |-> Cardinality(created) ]

\* generateSlots up to its await: the "Generate Slots" button
GenerateSlots(d) ==
    /\ ~account[d].isGenerating
    /\ \E s \in recurring_schedules : s.doctor_id = d
    /\ account' = [account EXCEPT ![d].isGenerating = TRUE,
                                  ![d].message = NoMessage,
                                  ![d].error = ""]
    /\ UNCHANGED <<identityVars, today, fkPolicy, storeVars, booking, apptPage>>

\* generateSlots asking for one week
GenerateArgumentsOneWeek(user) == [doctor_uuid |-> user, days_ahead |-> 7]

\* generateSlots asking for the booking page's window
GenerateArgumentsBookingWindow(user) ==
    [doctor_uuid |-> user, days_ahead |-> BOOKING_WINDOW_DAYS]

\* the practitioner and horizon generateSlots passes to the procedure
GenerateArguments(user) == [doctor_uuid |-> user, days_ahead |-> DAYS_AHEAD]

\* generateSlots after its await: the procedure has run and returned its count
GenerateSlotsDone(d, maxSlotId) ==
    /\ account[d].isGenerating
    /\ LET args == GenerateArguments(d)
       IN  \E order \in ScheduleOrders(args.doctor_uuid) :
             LET result == generate_slots_from_schedules(
                               args.doctor_uuid, args.days_ahead, order)
             IN  /\ nextSlotId + result.data - 1 <= maxSlotId
                 /\ time_slots' = result.time_slots
                 /\ nextSlotId' = nextSlotId + result.data
                 /\ account' = [account EXCEPT
                        ![d].isGenerating = FALSE,
                        ![d].message = Message("Successfully generated", result.data)]
    /\ UNCHANGED <<identityVars, today, fkPolicy, appointments, recurring_schedules,
                   nextApptId, nextSchedId, booking, apptPage>>

(***************************************************************************)
(* Accounts: the auth provider's principals and the doctors table.         *)
(* Usernames and the local parts of e-mail addresses are sequences of      *)
(* characters.                                                             *)
(***************************************************************************)
NoUser == 0
NoUsername == <<>>

Visitors == {1, 2}
Tabs == {1, 2}
UserIds == 1..MaxUserId

Email(local, domain) == [local |-> local, domain |-> domain]

NoEmail == Email(<<>>, "")

\* the characters [a-z0-9] that occur in the model
LowerAlnum == {"b", "c", "d", "o", "r", "1"}

\* String.prototype.toLowerCase, one character
ToLowerCase(c) ==
    CASE c = "B" -> "b"
      [] c = "D" -> "d"
      [] OTHER -> c

\* .toLowerCase().replace(/[^a-z0-9]/g, '-') of the part before the @
EmailUsername(email) ==
    [ i \in 1..Len(email.local) |->
        IF ToLowerCase(email.local[i]) \in LowerAlnum
        THEN ToLowerCase(email.local[i]) ELSE "-" ]

\* `user-${id.slice(0, 8)}`
UserIdUsername(id) == <<"u", "s", "e", "r", "-", ToString(id)>>

\* signupSchema.username: 3 to 30 characters of [a-z0-9-]
SignupSchemaAccepts(username) ==
    /\ Len(username) >= 3
    /\ Len(username) <= 30
    /\ \A i \in 1..Len(username) : username[i] \in LowerAlnum \cup {"-"}

UserById(id) == CHOOSE u \in auth_users : u.id = id

\* the rows a select on doctors with .eq('id', id) finds
DoctorsWithId(id) == { d \in doctors : d.id = id }

\* the rows a select on doctors with .eq('username', username) finds
DoctorsWithUsername(username) == { d \in doctors : d.username = username }

\* .single(): the row if exactly one was found, else the PGRST116 error
SingleFound(rows) == Cardinality(rows) = 1

\* the row every insert into doctors sends: the principal's e-mail, tier
\* 'free', no profile fields
DoctorRow(id, username) ==
    [ id |-> id, username |-> username, profile_completed |-> FALSE,
      email |-> UserById(id).email, tier |-> "free", full_name |-> "" ]

\* what the store answers to an insert into doctors: the primary key, and
\* the username when the store keeps it unique
DoctorInsertError(row) ==
    IF \/ DoctorsWithId(row.id) # {}
       \/ usernameUnique /\ DoctorsWithUsername(row.username) # {}
    THEN "23505" ELSE ""

practiceVars == <<today, fkPolicy, storeVars, booking, apptPage, account>>

authConfig == <<usernameUnique, emailConfirmation>>

(***************************************************************************)
(* The sign-up page: onSubmit, one action per await.                       *)
(***************************************************************************)
UsernameTakenMessage == "Username is already taken. Please choose another one."
UserAlreadyRegisteredMessage == "User already registered"
VerificationSentMessage == "We've sent a verification email"
AccountExistsMessage ==
    "An account with this email already exists. Try signing in instead."

InitialSignup ==
    [ pc |-> "idle", email |-> NoEmail, username |-> NoUsername,
      user |-> NoUser, error |-> "", message |-> "", redirect |-> "" ]

\* handleSubmit passes the form to onSubmit when the schema accepts it
SignupSubmit(k, email, username) ==
    /\ signupPage[k].pc = "idle"
    /\ signupPage[k].redirect = ""
    /\ SignupSchemaAccepts(username)
    /\ signupPage' = [signupPage EXCEPT ![k] =
          [InitialSignup EXCEPT !.pc = "checking", !.email = email,
                                !.username = username]]
    /\ UNCHANGED <<practiceVars, screenVars, docsVars, authConfig, doctors, auth_users, nextUserId,
                   callback, accountLoad>>

\* the username check has answered
SignupCheckUsername(k) ==
    /\ signupPage[k].pc = "checking"
    /\ signupPage' = [signupPage EXCEPT ![k] =
          IF SingleFound(DoctorsWithUsername(signupPage[k].username))
          THEN [@ EXCEPT !.pc = "idle", !.error = UsernameTakenMessage]
          ELSE [@ EXCEPT !.pc = "signing"]]
    /\ UNCHANGED <<practiceVars, screenVars, docsVars, authConfig, doctors, auth_users, nextUserId,
                   callback, accountLoad>>

\* the principal auth.signUp creates
NewUser(id, email, username) ==
    [ id |-> id, email |-> email, username |-> username,
      confirmed |-> ~emailConfirmation ]

\* auth.signUp has answered
SignupAuthSignUp(k) ==
    /\ signupPage[k].pc = "signing"
    /\ IF \E u \in auth_users : u.email = signupPage[k].email
       THEN /\ signupPage' = [signupPage EXCEPT ![k].pc = "idle",
                                 ![k].error = UserAlreadyRegisteredMessage]
            /\ UNCHANGED <<auth_users, nextUserId>>
       ELSE /\ nextUserId <= MaxUserId
            /\ auth_users' = auth_users \cup
                  {NewUser(nextUserId, signupPage[k].email, signupPage[k].username)}
            /\ nextUserId' = nextUserId + 1
            /\ signupPage' = [signupPage EXCEPT ![k] =
                  IF emailConfirmation
                  THEN [@ EXCEPT !.pc = "idle", !.user = nextUserId,
                                 !.message = VerificationSentMessage]
                  ELSE [@ EXCEPT !.pc = "inserting", !.user = nextUserId]]
    /\ UNCHANGED <<practiceVars, screenVars, docsVars, authConfig, doctors, callback, accountLoad>>

\* the insert into doctors has answered
SignupInsertDoctor(k) ==
    /\ signupPage[k].pc = "inserting"
    /\ LET doctorData == DoctorRow(signupPage[k].user, signupPage[k].username)
       IN  IF DoctorInsertError(doctorData) = "23505"
           THEN /\ signupPage' = [signupPage EXCEPT ![k].pc = "idle",
                                     ![k].error = AccountExistsMessage]
                /\ UNCHANGED doctors
           ELSE /\ doctors' = doctors \cup {doctorData}
                /\ signupPage' = [signupPage EXCEPT ![k].pc = "idle",
                                     ![k].redirect = "/accounts"]
    /\ UNCHANGED <<practiceVars, screenVars, docsVars, authConfig, auth_users, nextUserId,
                   callback, accountLoad>>

(***************************************************************************)
(* The auth callback: GET, one action per await.                           *)
(***************************************************************************)
\* event: what the request met (a code, no code, a code the provider turns
\* down, a session without a user, an exception)
InitialCallback == [pc |-> "idle", redirect |-> "", event |-> ""]

\* a callback that sends every existing practitioner to the dashboard
ExistingDoctorRedirectAlwaysDashboard(rows) == "/dashboard"

\* the redirect for a principal whose doctor record exists
ExistingDoctorRedirect(rows) ==
    IF \E d \in rows : d.profile_completed
    THEN "/dashboard" ELSE "/accounts?complete=true"

\* exchangeCodeForSession: the principal's e-mail is verified and the
\* session is theirs
CallbackExchange(u) ==
    /\ \E x \in auth_users : x.id = u
    /\ callback[u].pc \in {"idle", "done"}
    /\ auth_users' = (auth_users \ {UserById(u)})
                        \cup {[UserById(u) EXCEPT !.confirmed = TRUE]}
    /\ callback' = [callback EXCEPT ![u] =
          [pc |-> "exchanged", redirect |-> "", event |-> "code"]]
    /\ UNCHANGED <<practiceVars, screenVars, docsVars, authConfig, doctors, nextUserId, signupPage,
                   accountLoad>>

\* the lookup of the doctor record has answered
CallbackSelect(u) ==
    /\ callback[u].pc = "exchanged"
    /\ callback' = [callback EXCEPT ![u] =
          IF ~SingleFound(DoctorsWithId(u))
          THEN [@ EXCEPT !.pc = "creating"]
          ELSE [@ EXCEPT !.pc = "done",
                         !.redirect = ExistingDoctorRedirect(DoctorsWithId(u))]]
    /\ UNCHANGED <<practiceVars, screenVars, docsVars, authConfig, doctors, auth_users, nextUserId,
                   signupPage, accountLoad>>

\* user_metadata.username || the e-mail's local part || user-<id>
CallbackUsername(user) ==
    IF user.username # NoUsername THEN user.username
    ELSE IF EmailUsername(user.email) # <<>> THEN EmailUsername(user.email)
    ELSE UserIdUsername(user.id)

\* the insert of the doctor record has answered
CallbackInsert(u) ==
    /\ callback[u].pc = "creating"
    /\ LET row == DoctorRow(u, CallbackUsername(UserById(u)))
       IN  IF DoctorInsertError(row) # ""
           THEN /\ callback' = [callback EXCEPT ![u] =
                      [@ EXCEPT !.pc = "done",
                                !.redirect = "/signin?error=setup_error"]]
                /\ UNCHANGED doctors
           ELSE /\ doctors' = doctors \cup {row}
                /\ callback' = [callback EXCEPT ![u] =
                      [@ EXCEPT !.pc = "done",
                                !.redirect = "/accounts?welcome=true"]]
    /\ UNCHANGED <<practiceVars, screenVars, docsVars, authConfig, auth_users, nextUserId, signupPage,
                   accountLoad>>

\* a request without a code
CallbackNoCode(u) ==
    /\ callback[u].pc \in {"idle", "done"}
    /\ callback' = [callback EXCEPT ![u] =
          [pc |-> "done", redirect |-> "/signin", event |-> "no code"]]
    /\ UNCHANGED <<practiceVars, screenVars, docsVars, authConfig, doctors, auth_users,
                   nextUserId, signupPage, accountLoad>>

\* exchangeCodeForSession answers with an error: the code is not valid
CallbackExchangeFailed(u) ==
    /\ callback[u].pc \in {"idle", "done"}
    /\ callback' = [callback EXCEPT ![u] =
          [ pc |-> "done", redirect |-> "/signin?error=auth_error",
            event |-> "bad code" ]]
    /\ UNCHANGED <<practiceVars, screenVars, docsVars, authConfig, doctors, auth_users,
                   nextUserId, signupPage, accountLoad>>

\* exchangeCodeForSession answers without an error and without a user
CallbackNoUser(u) ==
    /\ callback[u].pc \in {"idle", "done"}
    /\ callback' = [callback EXCEPT ![u] =
          [pc |-> "done", redirect |-> "/signin", event |-> "no user"]]
    /\ UNCHANGED <<practiceVars, screenVars, docsVars, authConfig, doctors, auth_users,
                   nextUserId, signupPage, accountLoad>>

\* a store call of the handler throws: the catch block answers
CallbackThrown(u) ==
    /\ callback[u].pc \in {"exchanged", "creating"}
    /\ callback' = [callback EXCEPT ![u] =
          [ pc |-> "done", redirect |-> "/signin?error=callback_error",
            event |-> "thrown" ]]
    /\ UNCHANGED <<practiceVars, screenVars, docsVars, authConfig, doctors, auth_users,
                   nextUserId, signupPage, accountLoad>>

(***************************************************************************)
(* The account page: fetchDoctorData, one action per await.                *)
(***************************************************************************)
FailedToCreateAccountMessage ==
    "Failed to create account. Please try signing up again."

InitialAccountLoad ==
    [ pc |-> "idle", user |-> NoUser, doctor |-> NoUser, error |-> "",
      isLoading |-> TRUE, redirect |-> "",
      \* the loaded doctor's profile_completed, and the profile tab
      completed |-> FALSE, isSaving |-> FALSE, message |-> "",
      saver |-> NoUser, data |-> "" ]

\* the page is opened in a tab whose session is principal u's
FetchDoctorData(t, u) ==
    /\ accountLoad[t].pc \in {"idle", "done"}
    /\ \E x \in auth_users : x.id = u /\ x.confirmed
    /\ accountLoad' = [accountLoad EXCEPT ![t] =
          [InitialAccountLoad EXCEPT !.pc = "selecting", !.user = u]]
    /\ UNCHANGED <<practiceVars, screenVars, docsVars, authConfig, doctors, auth_users, nextUserId,
                   signupPage, callback>>

\* the lookup of the doctor record has answered
AccountSelect(t) ==
    /\ accountLoad[t].pc = "selecting"
    /\ accountLoad' = [accountLoad EXCEPT ![t] =
          IF SingleFound(DoctorsWithId(accountLoad[t].user))
          THEN [@ EXCEPT !.pc = "done", !.doctor = accountLoad[t].user,
                         !.completed =
                            \E d \in DoctorsWithId(accountLoad[t].user) :
                                d.profile_completed,
                         !.isLoading = FALSE]
          ELSE [@ EXCEPT !.pc = "creating"]]
    /\ UNCHANGED <<practiceVars, screenVars, docsVars, authConfig, doctors, auth_users, nextUserId,
                   signupPage, callback>>

\* user_metadata.username || user-<id>
AccountUsername(user) ==
    IF user.username # NoUsername THEN user.username
    ELSE UserIdUsername(user.id)

\* the insert of the doctor record has answered
AccountInsert(t) ==
    /\ accountLoad[t].pc = "creating"
    /\ LET row == DoctorRow(accountLoad[t].user,
                            AccountUsername(UserById(accountLoad[t].user)))
       IN  IF DoctorInsertError(row) # ""
           THEN /\ accountLoad' = [accountLoad EXCEPT ![t].pc = "done",
                      ![t].error = FailedToCreateAccountMessage,
                      ![t].isLoading = FALSE]
                /\ UNCHANGED doctors
           ELSE /\ doctors' = doctors \cup {row}
                /\ accountLoad' = [accountLoad EXCEPT ![t].pc = "done",
                                      ![t].doctor = row.id,
                                      ![t].isLoading = FALSE]
    /\ UNCHANGED <<practiceVars, screenVars, docsVars, authConfig, auth_users, nextUserId, signupPage,
                   callback>>

\* the page is opened in a tab without a session
OpenAccountSignedOut(t) ==
    /\ accountLoad[t].pc \in {"idle", "done"}
    /\ accountLoad' = [accountLoad EXCEPT ![t] =
          [InitialAccountLoad EXCEPT !.pc = "authenticating"]]
    /\ UNCHANGED <<practiceVars, screenVars, docsVars, authConfig, doctors, auth_users,
                   nextUserId, signupPage, callback>>

\* getUser has answered with no user: router.push('/signin')
AccountNoUser(t) ==
    /\ accountLoad[t].pc = "authenticating"
    /\ accountLoad' = [accountLoad EXCEPT ![t].pc = "done",
                                          ![t].redirect = "/signin",
                                          ![t].isLoading = FALSE]
    /\ UNCHANGED <<practiceVars, screenVars, docsVars, authConfig, doctors, auth_users,
                   nextUserId, signupPage, callback>>

\* what the account page renders
AccountView(t) ==
    IF accountLoad[t].isLoading THEN "loading"
    ELSE IF accountLoad[t].doctor = NoUser THEN "error"
    ELSE "account"

(***************************************************************************)
(* The dashboard (DashboardPage): fetchDashboardData.                      *)
(***************************************************************************)
\* a session: a verified principal, or none
SessionOf(u) == u = NoUser \/ \E x \in auth_users : x.id = u /\ x.confirmed

\* the page never navigates: redirect stays empty
InitialDashboard ==
    [pc |-> "idle", user |-> NoUser, doctor |-> {}, redirect |-> ""]

\* the dashboard is opened in a tab whose session is u's, or that has none
OpenDashboard(t, u) ==
    /\ dashboard[t].pc \in {"idle", "done"}
    /\ SessionOf(u)
    /\ dashboard' = [dashboard EXCEPT ![t] =
          [InitialDashboard EXCEPT !.pc = "authenticating", !.user = u]]
    /\ UNCHANGED <<practiceVars, docsVars, authConfig, doctors, auth_users, nextUserId,
                   signupPage, callback, accountLoad, apptLoad, signinPage>>

\* getUser has answered: without a user the function returns
DashboardGetUser(t) ==
    /\ dashboard[t].pc = "authenticating"
    /\ dashboard' = [dashboard EXCEPT ![t].pc =
          IF dashboard[t].user = NoUser THEN "done" ELSE "selecting"]
    /\ UNCHANGED <<practiceVars, docsVars, authConfig, doctors, auth_users, nextUserId,
                   signupPage, callback, accountLoad, apptLoad, signinPage>>

\* what .single() hands back as data: the row, or null
SingleData(rows) == IF SingleFound(rows) THEN rows ELSE {}

\* the doctor lookup has answered: setDoctor(doctorData)
DashboardSelect(t) ==
    /\ dashboard[t].pc = "selecting"
    /\ dashboard' = [dashboard EXCEPT ![t].pc = "done",
          ![t].doctor = SingleData(DoctorsWithId(dashboard[t].user))]
    /\ UNCHANGED <<practiceVars, docsVars, authConfig, doctors, auth_users, nextUserId,
                   signupPage, callback, accountLoad, apptLoad, signinPage>>

\* what the dashboard renders
DashboardView(t) ==
    IF dashboard[t].doctor = {} THEN "loading" ELSE "dashboard"

(***************************************************************************)
(* The appointment list: fetchAppointments, one action per await.          *)
(***************************************************************************)
\* the page never navigates: redirect stays empty
InitialApptLoad ==
    [ pc |-> "idle", user |-> NoUser, doctor |-> {}, isLoading |-> TRUE,
      redirect |-> "", error |-> "", console |-> "" ]

\* the list is opened in a session that is u's, or without one
OpenAppointments(s, u) ==
    /\ apptLoad[s].pc \in {"idle", "done"}
    /\ SessionOf(u)
    /\ apptLoad' = [apptLoad EXCEPT ![s] =
          [apptLoad[s] EXCEPT !.pc = "authenticating", !.user = u,
                              !.isLoading = TRUE]]
    /\ UNCHANGED <<practiceVars, docsVars, authConfig, doctors, auth_users, nextUserId,
                   signupPage, callback, accountLoad, dashboard, signinPage>>

\* getUser has answered: without a user the function returns
AppointmentsGetUser(s) ==
    /\ apptLoad[s].pc = "authenticating"
    /\ apptLoad' = [apptLoad EXCEPT ![s] =
          IF apptLoad[s].user = NoUser
          THEN [@ EXCEPT !.pc = "done", !.isLoading = FALSE]
          ELSE [@ EXCEPT !.pc = "selecting"]]
    /\ UNCHANGED <<practiceVars, docsVars, authConfig, doctors, auth_users, nextUserId,
                   signupPage, callback, accountLoad, dashboard, signinPage>>

\* the doctor lookup has answered: setDoctor(doctorData)
AppointmentsSelect(s) ==
    /\ apptLoad[s].pc = "selecting"
    /\ apptLoad' = [apptLoad EXCEPT ![s].pc = "fetching",
          ![s].doctor = SingleData(DoctorsWithId(apptLoad[s].user))]
    /\ UNCHANGED <<practiceVars, docsVars, authConfig, doctors, auth_users, nextUserId,
                   signupPage, callback, accountLoad, dashboard, signinPage>>

\* the appointment query has answered: setAppointments
AppointmentsFetched(s) ==
    /\ apptLoad[s].pc = "fetching"
    /\ apptLoad' = [apptLoad EXCEPT ![s].pc = "done", ![s].isLoading = FALSE]
    /\ apptPage' = [apptPage EXCEPT ![s] =
            [ user |-> apptLoad[s].user,
              appointments |-> { [id |-> a.id, status |-> a.status] :
                                    a \in AppointmentsOf(apptLoad[s].user) } ]]
    /\ UNCHANGED <<today, fkPolicy, storeVars, booking, account, docsVars, authConfig,
                   doctors, auth_users, nextUserId, signupPage, callback,
                   accountLoad, dashboard, signinPage>>

\* a click on a status button whose update the store turns down: the error
\* is written to the console and the function returns
UpdateAppointmentStatusRefused(s, appointmentId, newStatus) ==
    /\ \E l \in apptPage[s].appointments :
          l.id = appointmentId /\ newStatus \in StatusButtons(l.status)
    /\ apptLoad' = [apptLoad EXCEPT ![s].console = "Error updating appointment:"]
    /\ UNCHANGED <<practiceVars, docsVars, authConfig, doctors, auth_users, nextUserId,
                   signupPage, callback, accountLoad, dashboard, signinPage>>

\* what the appointment list renders
AppointmentsView(s) == IF apptLoad[s].isLoading THEN "loading" ELSE "list"

(***************************************************************************)
(* The sign-in page: onSubmit, one action per await.                       *)
(***************************************************************************)
InvalidCredentialsMessage == "Invalid email or password. Please try again."

InitialSignin ==
    [ pc |-> "idle", user |-> NoUser, isLoading |-> FALSE, error |-> "",
      redirect |-> "" ]

\* the form is submitted with the credentials of principal u, or with
\* credentials of nobody
SigninSubmit(k, u) ==
    /\ signinPage[k].pc = "idle"
    /\ signinPage' = [signinPage EXCEPT ![k] =
          [InitialSignin EXCEPT !.pc = "signing", !.user = u, !.isLoading = TRUE]]
    /\ UNCHANGED <<practiceVars, docsVars, authConfig, doctors, auth_users, nextUserId,
                   signupPage, callback, accountLoad, dashboard, apptLoad>>

\* signInWithPassword has answered
SigninAuth(k) ==
    /\ signinPage[k].pc = "signing"
    /\ signinPage' = [signinPage EXCEPT ![k] =
          IF \E x \in auth_users : x.id = signinPage[k].user /\ x.confirmed
          THEN [@ EXCEPT !.pc = "selecting"]
          ELSE [@ EXCEPT !.pc = "idle", !.error = InvalidCredentialsMessage,
                         !.isLoading = FALSE]]
    /\ UNCHANGED <<practiceVars, docsVars, authConfig, doctors, auth_users, nextUserId,
                   signupPage, callback, accountLoad, dashboard, apptLoad>>

\* the profile_completed lookup has answered: router.push
SigninSelect(k) ==
    /\ signinPage[k].pc = "selecting"
    /\ signinPage' = [signinPage EXCEPT ![k].pc = "idle",
          ![k].isLoading = FALSE,
          ![k].redirect =
              IF \E d \in SingleData(DoctorsWithId(signinPage[k].user)) :
                    d.profile_completed
              THEN "/dashboard" ELSE "/accounts"]
    /\ UNCHANGED <<practiceVars, docsVars, authConfig, doctors, auth_users, nextUserId,
                   signupPage, callback, accountLoad, dashboard, apptLoad>>

(***************************************************************************)
(* The account page's profile tab: onProfileSubmit.                        *)
(***************************************************************************)
ProfileUpdatedMessage == "Profile updated successfully!"

\* an update that writes the whole row as a fresh one
ProfileReplace(row, data) ==
    [ id |-> row.id, username |-> row.username, profile_completed |-> TRUE,
      email |-> row.email, tier |-> "free", full_name |-> data ]

\* update doctors set ...data, profile_completed = true where id = user.id:
\* data holds the fields of profileSchema only
ProfileUpdate(row, data) ==
    [row EXCEPT !.full_name = data, !.profile_completed = TRUE]

\* the profile form is submitted; getUser answers with the session of that
\* moment, u's or none
OnProfileSubmit(t, u, full_name) ==
    /\ accountLoad[t].pc = "done"
    /\ AccountView(t) = "account"
    /\ u \in {accountLoad[t].user, NoUser}
    /\ accountLoad' = [accountLoad EXCEPT ![t] =
          [@ EXCEPT !.pc = "saving", !.isSaving = TRUE, !.message = "",
                    !.error = "", !.saver = u, !.data = full_name]]
    /\ UNCHANGED <<practiceVars, screenVars, docsVars, authConfig, doctors, auth_users,
                   nextUserId, signupPage, callback>>

\* the update has answered
ProfileSaved(t) ==
    /\ accountLoad[t].pc = "saving"
    /\ IF accountLoad[t].saver = NoUser
       THEN /\ accountLoad' = [accountLoad EXCEPT ![t].pc = "done",
                                                 ![t].isSaving = FALSE]
            /\ UNCHANGED doctors
       ELSE /\ doctors' = { IF d.id = accountLoad[t].saver
                            THEN ProfileUpdate(d, accountLoad[t].data) ELSE d :
                            d \in doctors }
            /\ accountLoad' = [accountLoad EXCEPT ![t] =
                  [@ EXCEPT !.pc = "done", !.isSaving = FALSE,
                            !.message = ProfileUpdatedMessage,
                            !.completed = TRUE,
                            !.redirect = IF accountLoad[t].completed
                                         THEN accountLoad[t].redirect
                                         ELSE "/dashboard"]]
    /\ UNCHANGED <<practiceVars, screenVars, docsVars, authConfig, auth_users, nextUserId,
                   signupPage, callback>>

(***************************************************************************)
(* The changelog page (ChangelogPage).                                     *)
(***************************************************************************)
\* a version x.y.z-beta, as its three numbers
Version(x, y, z) == <<x, y, z>>

\* the keys of VERSION_CHANGELOG in the order the file lists them
VERSION_CHANGELOG == << Version(1, 0, 2), Version(1, 0, 1), Version(1, 0, 0) >>

\* Object.entries: the keys are not array indices, so they come in the
\* order they were written
ObjectEntries(object) == object

\* Array.prototype.reverse
Reverse(seq) == [i \in 1..Len(seq) |-> seq[Len(seq) + 1 - i]]

\* the page is rendered: const versions = Object.entries(...).reverse()
ChangelogPage ==
    /\ versions' = Reverse(ObjectEntries(changelog))
    /\ UNCHANGED <<practiceVars, screenVars, authConfig, doctors, auth_users,
                   nextUserId, signupPage, callback, accountLoad, changelog>>

\* no sign-up, callback or account load is under way
PagesIdle ==
    /\ signupPage = [k \in Visitors |-> InitialSignup]
    /\ callback = [u \in UserIds |-> InitialCallback]
    /\ accountLoad = [t \in Tabs |-> InitialAccountLoad]
    /\ dashboard = [t \in Tabs |-> InitialDashboard]
    /\ apptLoad = [s \in Sessions |-> InitialApptLoad]
    /\ signinPage = [k \in Visitors |-> InitialSignin]

\* ... and the changelog page has not been rendered
IdentityIdle ==
    /\ PagesIdle
    /\ changelog = VERSION_CHANGELOG
    /\ versions = <<>>

\* the practitioners of the booking system have signed up and verified
RegisteredUsername(d) == <<"d", "r", ToString(d)>>

RegisteredAccounts ==
    /\ usernameUnique = TRUE
    /\ emailConfirmation = TRUE
    /\ auth_users = { [ id |-> d, email |-> Email(<<"d", "r">>, ToString(d)),
                        username |-> RegisteredUsername(d), confirmed |-> TRUE ] :
                      d \in Doctors }
    /\ doctors = { [ id |-> d, username |-> RegisteredUsername(d),
                     profile_completed |-> TRUE,
                     email |-> Email(<<"d", "r">>, ToString(d)),
                     tier |-> "free", full_name |-> "Dr" ] : d \in Doctors }
    /\ nextUserId = Cardinality(Doctors) + 1
    /\ IdentityIdle

\* a principal that did not come from the sign-up page: no username in its
\* metadata
ExternalUser ==
    [ id |-> 1, email |-> Email(<<"D", ".">>, "x"), username |-> NoUsername,
      confirmed |-> TRUE ]

\* what the visitors type into the sign-up form
SignupEmail(k) == Email(<<"B", "o">>, ToString(k))

SignupUsernames == { <<"d", "o", "c">>, <<"d", "-", "1">>, <<"D", "r">> }

\* nothing of the booking system is in use
NoPractice ==
    /\ today = 0
    /\ fkPolicy = "restrict"
    /\ time_slots = {}
    /\ appointments = {}
    /\ recurring_schedules = {}
    /\ nextSlotId = 1
    /\ nextApptId = 1
    /\ nextSchedId = 1
    /\ booking = [p \in Patients |-> InitialBooking]
    /\ apptPage = [s \in Sessions |-> [user |-> NoDoctor, appointments |-> {}]]
    /\ account = [d \in Doctors |-> InitialAccount]

\* two visitors sign up and follow their verification links
InitSignup ==
    /\ NoPractice
    /\ usernameUnique \in BOOLEAN
    /\ emailConfirmation \in BOOLEAN
    /\ doctors = {}
    /\ auth_users \in { {}, {ExternalUser} }
    /\ nextUserId = Cardinality(auth_users) + 1
    /\ IdentityIdle

NextSignup ==
    \/ \E k \in Visitors : \E username \in SignupUsernames :
          SignupSubmit(k, SignupEmail(k), username)
    \/ \E k \in Visitors : SignupCheckUsername(k)
    \/ \E k \in Visitors : SignupAuthSignUp(k)
    \/ \E k \in Visitors : SignupInsertDoctor(k)
    \/ \E u \in UserIds : CallbackExchange(u)
    \/ \E u \in UserIds : CallbackSelect(u)
    \/ \E u \in UserIds : CallbackInsert(u)

SpecSignup == InitSignup /\ [][NextSignup]_vars

\* principals the sign-up page has created and not yet verified: visitor 1's,
\* and visitor 2's with the same username
PendingUsers ==
    { [ id |-> 1 + k, email |-> SignupEmail(k), username |-> <<"d", "o", "c">>,
        confirmed |-> FALSE ] : k \in Visitors }

\* principals without a doctor record establish their sessions: the auth
\* callback and the account page in two tabs
InitProfile ==
    /\ NoPractice
    /\ usernameUnique \in BOOLEAN
    /\ emailConfirmation = TRUE
    /\ doctors = {}
    /\ auth_users \in SUBSET ({ExternalUser} \cup PendingUsers)
    /\ nextUserId = MaxUserId + 1
    /\ IdentityIdle

NextProfile ==
    \/ \E u \in UserIds : CallbackExchange(u)
    \/ \E u \in UserIds : CallbackSelect(u)
    \/ \E u \in UserIds : CallbackInsert(u)
    \/ \E t \in Tabs : \E u \in UserIds : FetchDoctorData(t, u)
    \/ \E t \in Tabs : AccountSelect(t)
    \/ \E t \in Tabs : AccountInsert(t)

SpecProfile == InitProfile /\ [][NextProfile]_vars

(***************************************************************************)
(* The calendar.                                                           *)
(***************************************************************************)
\* midnight passes
NextDay ==
    /\ today < MaxToday
    /\ today' = today + 1
    /\ UNCHANGED <<identityVars, fkPolicy, storeVars, booking, apptPage, account>>

(***************************************************************************)
(* The booking system: practitioner 1 has one recurring schedule, no slot  *)
(* exists yet and no page is open.                                         *)
(***************************************************************************)
RegisteredSchedule ==
    [ id |-> 1, doctor_id |-> 1, weekdays |-> {1},
      start_time |-> 540, end_time |-> 560,
      interval_minutes |-> 20, is_active |-> TRUE ]

\* what the practitioner types into the ad-hoc slot form
SlotFormInputs == { [date |-> 1, startTime |-> 540, endTime |-> 560] }

ClosedPages ==
    /\ booking = [p \in Patients |-> InitialBooking]
    /\ apptPage = [s \in Sessions |-> [user |-> NoDoctor, appointments |-> {}]]
    /\ account = [d \in Doctors |-> InitialAccount]

Init ==
    /\ today = 0
    /\ fkPolicy \in {"restrict", "cascade"}
    /\ time_slots = {}
    /\ appointments = {}
    /\ recurring_schedules = {RegisteredSchedule}
    /\ nextSlotId = 1
    /\ nextApptId = 1
    /\ nextSchedId = 2
    /\ ClosedPages
    /\ RegisteredAccounts

\* the patients in P use the booking page of practitioner d
PatientNext(P, d) ==
    \/ \E p \in P : OpenPage(p, d)
    \/ \E p \in P : FetchDoctorAndSlots(p)
    \/ \E p \in P, i \in 1..MaxSlotId : SelectSlot(p, i)
    \/ \E p \in P : OnSubmit(p)
    \/ \E p \in P : InsertAppointment(p)
    \/ \E p \in P : BookAnother(p)

\* practitioner d adds and deletes ad-hoc slots
SlotNext(d) ==
    \/ \E f \in SlotFormInputs : OnSlotSubmit(d, f.date, f.startTime, f.endTime)
    \/ \E id \in 1..MaxSlotId : DeleteSlot(d, id)

\* practitioner d generates slots from the recurring schedules
GenerateNext(d, maxSlotId) ==
    \/ GenerateSlots(d)
    \/ GenerateSlotsDone(d, maxSlotId)

\* practitioner d works the appointment list in the sessions S
StatusNext(S, d) ==
    \/ \E s \in S : FetchAppointments(s, d)
    \/ \E s \in S, a \in 1..MaxApptId, st \in Statuses :
          UpdateAppointmentStatus(s, a, st)

\* two patients book with practitioner 1, who adds, deletes and generates slots
Next ==
    \/ PatientNext(Patients, 1)
    \/ SlotNext(1)
    \/ GenerateNext(1, MaxSlotId)

Spec == Init /\ [][Next]_vars

\* one patient, and practitioner 1 doing everything a practitioner can do
NextPractice ==
    \/ PatientNext({1}, 1)
    \/ SlotNext(1)
    \/ GenerateNext(1, MaxSlotId)
    \/ StatusNext({1}, 1)

SpecPractice == Init /\ [][NextPractice]_vars

\* one patient, and practitioner 1 with the appointment list open twice
NextStatus ==
    \/ PatientNext({1}, 1)
    \/ SlotNext(1)
    \/ StatusNext(Sessions, 1)

SpecStatus == Init /\ [][NextStatus]_vars

(***************************************************************************)
(* A store of any contents: the rows other clients and earlier runs may    *)
(* have left.  Ids are handed out in the order of the rows below.          *)
(***************************************************************************)
Row(doctor_id, slot_date, start_time, end_time, is_available, is_booked) ==
    [ doctor_id |-> doctor_id, slot_date |-> slot_date,
      start_time |-> start_time, end_time |-> end_time,
      is_available |-> is_available, is_booked |-> is_booked ]

StoreSlotRows ==
    << Row(1, 1, 540, 560, TRUE, FALSE),
       Row(1, 1, 540, 560, TRUE, TRUE),
       Row(1, 8, 540, 585, TRUE, TRUE),
       Row(2, 1, 540, 560, TRUE, FALSE),
       Row(1, 0, 540, 560, TRUE, FALSE),
       Row(1, 31, 540, 560, TRUE, FALSE),
       Row(1, 1, 560, 580, FALSE, FALSE),
       Row(2, 1, 540, 560, TRUE, TRUE),
       Row(1, 1, 500, 520, TRUE, FALSE) >>

\* the rows picked by the index set I, numbered 1, 2, ... in index order
StoredSlots(I) ==
    { [ id |-> Cardinality({ j \in I : j <= i }),
        doctor_id |-> StoreSlotRows[i].doctor_id,
        slot_date |-> StoreSlotRows[i].slot_date,
        start_time |-> StoreSlotRows[i].start_time,
        end_time |-> StoreSlotRows[i].end_time,
        is_available |-> StoreSlotRows[i].is_available,
        is_booked |-> StoreSlotRows[i].is_booked ] : i \in I }

SlotChoices(rows) ==
    { I \in SUBSET (1..rows) : Cardinality(I) <= MaxStoredSlots }

\* one confirmed appointment on each of the given slots
StoredAppointments(slots) ==
    { [ id |-> s.id, slot_id |-> s.id, doctor_id |-> s.doctor_id,
        patient |-> 1, status |-> "confirmed",
        appointment_date |-> s.slot_date, appointment_time |-> s.start_time ] :
      s \in slots }

\* the schedules practitioner 1 may have registered first ...
FirstSchedules ==
    { [ id |-> 1, doctor_id |-> 1, weekdays |-> w,
        start_time |-> 540, end_time |-> e,
        interval_minutes |-> i, is_active |-> a ] :
      w \in {{1}, {1, 3}}, e \in {560, 565}, i \in INTERVAL_OPTIONS, a \in BOOLEAN }

\* ... and the schedules registered after it
SecondSchedules ==
    { [ id |-> 2, doctor_id |-> 1, weekdays |-> {1},
        start_time |-> 540, end_time |-> 570,
        interval_minutes |-> 30, is_active |-> TRUE ],
      [ id |-> 2, doctor_id |-> 2, weekdays |-> {1},
        start_time |-> 540, end_time |-> 560,
        interval_minutes |-> 20, is_active |-> TRUE ] }

AtMostOne(S) == {{}} \cup { {x} : x \in S }

QuerySlotChoices ==
    { I \in SUBSET (1..Len(StoreSlotRows)) : Cardinality(I) <= MaxQuerySlots }

\* the availability query over a store of any slots
InitQuery ==
    /\ today = 0
    /\ fkPolicy = "restrict"
    /\ \E I \in QuerySlotChoices :
          /\ time_slots = StoredSlots(I)
          /\ nextSlotId = Cardinality(I) + 1
    /\ appointments = {}
    /\ recurring_schedules = {}
    /\ nextApptId = 1
    /\ nextSchedId = 1
    /\ ClosedPages
    /\ RegisteredAccounts

NextQuery ==
    \/ \E d \in Doctors : OpenPage(1, d)
    \/ FetchDoctorAndSlots(1)
    \/ NextDay

SpecQuery == InitQuery /\ [][NextQuery]_vars

\* slot generation over a store of any schedules, slots and appointments
InitGenerate ==
    /\ today = 0
    /\ fkPolicy = "restrict"
    /\ \E I \in SlotChoices(4) :
          /\ time_slots = StoredSlots(I)
          /\ nextSlotId = Cardinality(I) + 1
          /\ appointments \in { {}, StoredAppointments(StoredSlots(I)) }
          /\ nextApptId = Cardinality(I) + 1
    /\ \E A \in AtMostOne(FirstSchedules), B \in AtMostOne(SecondSchedules) :
          recurring_schedules = A \cup B
    /\ nextSchedId = 3
    /\ ClosedPages
    /\ RegisteredAccounts

NextGenerate ==
    \/ \E d \in Doctors : GenerateNext(d, MaxStoreSlotId)
    \/ NextDay

SpecGenerate == InitGenerate /\ [][NextGenerate]_vars

(***************************************************************************)
(* Properties of the booking flow.                                         *)
(***************************************************************************)
AppointmentsOn(slot_id) == { a \in appointments : a.slot_id = slot_id }

\* p and q have both had the store's answer to a booking of slot s, which
\* is still stored
BothSubmitted(p, q, s) ==
    /\ p # q
    /\ booking[p].submitted = s
    /\ booking[q].submitted = s
    /\ booking[p].pc # "inserting"
    /\ booking[q].pc # "inserting"
    /\ SlotExists(s)

\* C1: when two patients have submitted bookings for the same slot, exactly
\* one appointment references the slot, and the patient who does not hold it
\* is shown the "no longer available" message
C1_OneBookingPerRace ==
    \A p, q \in Patients : \A s \in 1..MaxSlotId :
        BothSubmitted(p, q, s) =>
            /\ Cardinality(AppointmentsOn(s)) = 1
            /\ \A x \in {p, q} :
                  (\A a \in AppointmentsOn(s) : a.patient # x)
                      => booking[x].error = SlotTakenBookingMessage

\* the race has been run: patient 1 holds the appointment, patient 2 was refused
C1_Witness ==
    \E s \in 1..MaxSlotId :
        /\ BothSubmitted(1, 2, s)
        /\ \E a \in AppointmentsOn(s) : a.patient = 1
        /\ booking[1].success
        /\ booking[2].error = SlotTakenBookingMessage

\* C2: no time slot is referenced by more than one appointment, whatever the
\* appointments' statuses
C2_OneAppointmentPerSlot ==
    \A a, b \in appointments : a.slot_id = b.slot_id => a = b

\* a cancelled appointment still holds its slot: a later booking of the
\* slot was refused
C2_Witness ==
    \E a \in appointments :
        /\ a.status = "cancelled"
        /\ booking[1].submitted = a.slot_id
        /\ booking[1].pc = "ready"
        /\ booking[1].error = SlotTakenBookingMessage

\* C3: once a booking for a slot has succeeded, no availability list loaded
\* afterwards contains that slot
C3_LoadedListOmitsBookedSlots ==
    [][ \A p \in Patients :
          (booking[p].pc = "loading" /\ booking'[p].pc = "ready")
              => \A i \in 1..Len(booking'[p].timeSlots) :
                    AppointmentsOn(booking'[p].timeSlots[i].id) = {} ]_vars

\* C4: every slot referenced by an appointment has is_booked = true, and
\* is_booked changes only from false to true, in the step that stores an
\* appointment for the slot
C4_BookedWhenClaimed ==
    [][ /\ \A a \in appointments' : \A s \in time_slots' :
              s.id = a.slot_id => s.is_booked
        /\ \A s \in time_slots : \A s2 \in time_slots' :
              (s.id = s2.id /\ s.is_booked # s2.is_booked)
                  => /\ ~s.is_booked
                     /\ \E a \in appointments' \ appointments : a.slot_id = s.id
      ]_vars

\* C6: the stored status of an appointment changes only from confirmed to
\* completed, no_show or cancelled
C6_StatusOnlyLeavesConfirmed ==
    [][ \A a \in appointments : \A a2 \in appointments' :
          (a.id = a2.id /\ a.status # a2.status)
              => a.status = "confirmed" /\ a2.status \in TerminalStatuses ]_vars

\* C5: no availability list loaded by the booking page holds a slot whose
\* is_booked is true, whatever the store, the practitioner and the date
C5_ListHasNoBookedSlot ==
    \A p \in Patients : \A i \in 1..Len(booking[p].timeSlots) :
        ~booking[p].timeSlots[i].is_booked

\* a list has been loaded from a store holding a booked slot that passes
\* every other filter of the query
C5_Witness ==
    /\ booking[1].pc = "ready"
    /\ booking[1].doctor # NoDoctor
    /\ Len(booking[1].timeSlots) > 0
    /\ \E s \in time_slots :
          /\ s.doctor_id = booking[1].doctor
          /\ s.is_available
          /\ s.is_booked
          /\ s.slot_date >= today
          /\ s.slot_date <= today + BOOKING_WINDOW_DAYS

(***************************************************************************)
(* Properties of slot generation.                                          *)
(***************************************************************************)
\* the step in which the procedure runs for practitioner d
GenerationStep(d) == account[d].isGenerating /\ ~account'[d].isGenerating

\* practitioner d's last run of the procedure has returned
Generated(d) == account[d].message.text = "Successfully generated"

\* the active schedules of practitioner d that cover the date
MatchingSchedules(d, date) ==
    { s \in recurring_schedules :
        s.doctor_id = d /\ s.is_active /\ (date % 7) \in s.weekdays }

WholeSlices(s) == (s.end_time - s.start_time) \div s.interval_minutes

\* the rows hold a slot of d at every slice start of every matching schedule
\* on every date of [now, now + DAYS_AHEAD)
SlicesStored(d, rows, now) ==
    \A date \in now..(now + DAYS_AHEAD - 1) : \A s \in MatchingSchedules(d, date) :
        \A k \in 0..(WholeSlices(s) - 1) :
            \E r \in rows : /\ r.doctor_id = d
                            /\ r.slot_date = date
                            /\ r.start_time = s.start_time + k * s.interval_minutes

RowsOn(rows, d, date) == { r \in rows : r.doctor_id = d /\ r.slot_date = date }

\* C7: generation gives every matching date of the horizon the
\* floor((end_time - start_time) / interval_minutes) consecutive slices of
\* each active schedule; on a date that had no slot and has one matching
\* schedule it creates exactly those; every created slot is one interval
\* long, starts on a slice boundary and ends by end_time
C7_WholeSlicesGenerated ==
    [][ \A d \in Doctors : GenerationStep(d) =>
          LET created == time_slots' \ time_slots
          IN  /\ SlicesStored(d, time_slots', today)
              /\ \A date \in today..(today + DAYS_AHEAD - 1) :
                    \A s \in MatchingSchedules(d, date) :
                       (MatchingSchedules(d, date) = {s} /\ RowsOn(time_slots, d, date) = {})
                          => /\ Cardinality(RowsOn(created, d, date)) = WholeSlices(s)
                             /\ { <<r.start_time, r.end_time>> : r \in RowsOn(created, d, date) }
                                  = { <<s.start_time + k * s.interval_minutes,
                                        s.start_time + (k + 1) * s.interval_minutes>> :
                                      k \in 0..(WholeSlices(s) - 1) }
              /\ \A r \in created : \E s \in MatchingSchedules(d, r.slot_date) :
                    /\ r.end_time = r.start_time + s.interval_minutes
                    /\ r.start_time >= s.start_time
                    /\ (r.start_time - s.start_time) % s.interval_minutes = 0
                    /\ r.end_time <= s.end_time ]_vars

\* generation has run for a schedule whose last interval does not fit: day 3
\* holds the two whole slices and nothing else
C7_Witness ==
    /\ Generated(1)
    /\ \E s \in MatchingSchedules(1, 3) :
          /\ (s.end_time - s.start_time) % s.interval_minutes # 0
          /\ WholeSlices(s) = 2
          /\ Cardinality(RowsOn(time_slots, 1, 3)) = 2
          /\ \A r \in RowsOn(time_slots, 1, 3) : r.end_time <= s.end_time

\* C8: a slot created by generation shares its (practitioner, slot_date,
\* start_time) with no other stored slot; after a run every slice of the
\* horizon is stored, and a run over a store that holds every slice creates
\* nothing and returns 0
C8_GenerationIdempotent ==
    [][ \A d \in Doctors : GenerationStep(d) =>
          /\ \A r \in time_slots' \ time_slots : \A r2 \in time_slots' :
                (/\ r2.doctor_id = r.doctor_id
                 /\ r2.slot_date = r.slot_date
                 /\ r2.start_time = r.start_time) => r2 = r
          /\ SlicesStored(d, time_slots', today)
          /\ SlicesStored(d, time_slots, today)
                => /\ time_slots' = time_slots
                   /\ account'[d].message.count = 0 ]_vars

\* a run has returned 0 over a store that earlier runs filled
C8_Witness ==
    /\ Generated(1)
    /\ account[1].message.count = 0
    /\ Cardinality(time_slots) > MaxStoredSlots
    /\ \E date \in today..(today + DAYS_AHEAD - 1) :
          \E s \in MatchingSchedules(1, date) : WholeSlices(s) > 0

\* C9: generation leaves every slot that is booked or referenced by an
\* appointment stored and unchanged, and leaves the appointments unchanged
C9_BookedSlotsUntouched ==
    [][ \A d \in Doctors : GenerationStep(d) =>
          /\ appointments' = appointments
          /\ \A s \in time_slots :
                (s.is_booked \/ \E a \in appointments : a.slot_id = s.id)
                    => /\ s \in time_slots'
                       /\ \A r \in time_slots' : r.id = s.id => r = s ]_vars

\* generation has created slots for a practitioner who has a booked,
\* referenced slot on a date and start time the schedule covers
C9_Witness ==
    /\ Generated(1)
    /\ account[1].message.count > 0
    /\ \E s \in time_slots : \E a \in appointments :
          /\ a.slot_id = s.id
          /\ s.is_booked
          /\ s.doctor_id = 1
          /\ s.slot_date >= today
          /\ \E x \in MatchingSchedules(1, s.slot_date) : x.start_time = s.start_time

\* C10: every slot generation creates for practitioner d is d's, lies on a
\* date of [today, today + DAYS_AHEAD) and on a weekday (Sunday = 0) of an
\* active schedule of d
C10_OnlyHorizonAndActiveSchedules ==
    [][ \A d \in Doctors : GenerationStep(d) =>
          \A r \in time_slots' \ time_slots :
              /\ r.doctor_id = d
              /\ today <= r.slot_date
              /\ r.slot_date < today + DAYS_AHEAD
              /\ \E s \in recurring_schedules :
                    /\ s.doctor_id = d
                    /\ s.is_active
                    /\ (r.slot_date % 7) \in s.weekdays ]_vars

\* generation has created slots for practitioner 1, who also has an inactive
\* schedule for Wednesdays: no Wednesday holds a slot
C10_Witness ==
    /\ Generated(1)
    /\ account[1].message.count > 0
    /\ \E s \in recurring_schedules :
          s.doctor_id = 1 /\ ~s.is_active /\ 3 \in s.weekdays
    /\ \A r \in time_slots : r.slot_date % 7 # 3

\* C11: the count generation reports is the number of slots it created; for
\* a practitioner without an active schedule it creates nothing and reports
\* 0; either way the run ends with the success message and no error
C11_CountOfCreatedSlots ==
    [][ \A d \in Doctors : GenerationStep(d) =>
          /\ account'[d].message.text = "Successfully generated"
          /\ account'[d].message.count = Cardinality(time_slots' \ time_slots)
          /\ account'[d].error = ""
          /\ (\A s \in recurring_schedules : s.doctor_id = d => ~s.is_active)
                => /\ time_slots' = time_slots
                   /\ account'[d].message.count = 0 ]_vars

\* practitioner 1, whose only schedule is inactive, has run generation over
\* a store without slots of theirs on their schedule's days: success with 0
C11_Witness ==
    /\ Generated(1)
    /\ account[1].message.count = 0
    /\ account[1].error = ""
    /\ \E s \in recurring_schedules : s.doctor_id = 1 /\ 1 \in s.weekdays
    /\ \A s \in recurring_schedules : s.doctor_id = 1 => ~s.is_active
    /\ \A r \in time_slots : r.doctor_id = 1 => r.slot_date % 7 # 1

(***************************************************************************)
(* Properties of sign-up and of the doctor record.                         *)
(***************************************************************************)
\* the principals the sign-up page created
SignedUpUsers == { u \in auth_users : u.username # NoUsername }

\* a run that was to leave principal u with a doctor record has ended
SignupSettled(u) ==
    \/ callback[u].pc = "done"
    \/ \E k \in Visitors : /\ signupPage[k].user = u
                           /\ signupPage[k].pc = "idle"
                           /\ ~emailConfirmation

\* C12: no two doctor records share a username, and no principal created by
\* a sign-up is left without a doctor record once its sign-up has run to
\* its end
C12_UsernameTakenOnce ==
    /\ \A a, b \in doctors : a.username = b.username => a = b
    /\ \A u \in SignedUpUsers :
          SignupSettled(u.id) => DoctorsWithId(u.id) # {}

\* the usernames the callback and the account page would give principal u
DefaultUsernames(u) == {CallbackUsername(u), AccountUsername(u)}

\* C13: when the auth callback or the account page finishes creating the
\* doctor record of a principal that had none, the principal has exactly one
\* record, with a derived default username and profile_completed = false
C13_FirstSessionCreatesProfile ==
    [][ /\ \A u \in UserIds :
              (/\ callback[u].pc = "creating"
               /\ callback'[u].pc = "done"
               /\ DoctorsWithId(u) = {})
                  => \E name \in DefaultUsernames(UserById(u)) :
                        { d \in doctors' : d.id = u } = {DoctorRow(u, name)}
        /\ \A t \in Tabs :
              (/\ accountLoad[t].pc = "creating"
               /\ accountLoad'[t].pc = "done"
               /\ DoctorsWithId(accountLoad[t].user) = {})
                  => \E name \in DefaultUsernames(UserById(accountLoad[t].user)) :
                        { d \in doctors' : d.id = accountLoad[t].user }
                            = {DoctorRow(accountLoad[t].user, name)} ]_vars

\* no other principal would be given one of u's default usernames
UsernameUncontested(u) ==
    \A v \in auth_users :
        v.id # u.id => DefaultUsernames(v) \cap DefaultUsernames(u) = {}

\* C14: however often and however interleaved the callback and the account
\* page create the doctor record of one principal, the principal never has
\* two records, and every run that has ended left the record in place and
\* reports no error
C14_EnsureProfileIdempotent ==
    \A u \in auth_users : UsernameUncontested(u) =>
        /\ Cardinality(DoctorsWithId(u.id)) <= 1
        /\ callback[u.id].pc = "done"
              => /\ DoctorsWithId(u.id) # {}
                 /\ callback[u.id].redirect # "/signin?error=setup_error"
        /\ \A t \in Tabs :
              (accountLoad[t].pc = "done" /\ accountLoad[t].user = u.id)
                  => /\ DoctorsWithId(u.id) # {}
                     /\ accountLoad[t].doctor = u.id
                     /\ accountLoad[t].error = ""

\* C15: the list the booking page loads for practitioner X holds exactly the
\* stored slots with doctor_id = X, is_available, not is_booked and
\* today <= slot_date <= today + 30, each once, in ascending order of
\* slot_date and, within a date, of start_time
C15_QueryExactAndOrdered ==
    [][ \A p \in Patients :
          (booking[p].pc = "loading" /\ booking'[p].pc = "ready") =>
              LET list == booking'[p].timeSlots
              IN  /\ { list[i] : i \in 1..Len(list) }
                       = { s \in time_slots :
                             /\ s.doctor_id = booking'[p].doctor
                             /\ s.is_available
                             /\ ~s.is_booked
                             /\ today <= s.slot_date
                             /\ s.slot_date <= today + 30 }
                  /\ \A i, j \in 1..Len(list) :
                        i < j => /\ list[i] # list[j]
                                 /\ list[i].slot_date <= list[j].slot_date
                                 /\ list[i].slot_date = list[j].slot_date
                                       => list[i].start_time <= list[j].start_time
        ]_vars

\* a list of two slots has been loaded in which the slot stored later comes
\* first, from a store that also holds a slot the filter leaves out
C15_Witness ==
    /\ booking[1].pc = "ready"
    /\ Len(booking[1].timeSlots) = 2
    /\ booking[1].timeSlots[1].id > booking[1].timeSlots[2].id
    /\ booking[1].timeSlots[1].slot_date = booking[1].timeSlots[2].slot_date
    /\ Cardinality(time_slots) > 2

C17_StatusChangeKeepsSlots ==
    [][ \A s \in Sessions : \A a \in appointments :
          (/\ \E l \in apptPage[s].appointments : l.id = a.id
           /\ \E l \in apptPage'[s].appointments :
                 /\ l.id = a.id
                 /\ l.status \in TerminalStatuses
                 /\ \A k \in apptPage[s].appointments : k.id = a.id => k # l)
              => /\ time_slots' = time_slots
                 /\ \E a2 \in appointments' :
                       /\ a2.id = a.id
                       /\ a2.slot_id = a.slot_id
                       /\ a2.status \in TerminalStatuses ]_vars

\* an appointment has been cancelled: its slot is stored as it was created,
\* still open by its flags, and still held by the appointment
C17_Witness ==
    \E a \in appointments :
        /\ a.status = "cancelled"
        /\ \E l \in apptPage[1].appointments : l.id = a.id /\ l.status = "cancelled"
        /\ \E s \in time_slots :
              s.id = a.slot_id /\ s.is_available /\ ~s.is_booked
        /\ UniqueViolation(a.slot_id)

(***************************************************************************)
(* The account page's forms, filled in by practitioner 1.                  *)
(***************************************************************************)
FormWeekdays == {1, 6}

TimeInputs == { TimeText(9, 0), TimeText(9, 25), TimeText(10, 0) }

IntervalInputs == {7, 10, 35}

AdHocSlotInputs ==
    { [date |-> d, startTime |-> s, endTime |-> e] :
        d \in {1, 2}, s \in {540, 560}, e \in {540, 560, 580} }

InitForms ==
    /\ NoPractice
    /\ RegisteredAccounts

\* the schedule form
NextForms ==
    \/ \E weekday \in FormWeekdays : ToggleWeekday(1, weekday)
    \/ \E s, e \in TimeInputs : \E i \in IntervalInputs :
          EditScheduleForm(1, s, e, i)
    \/ OnScheduleSubmit(1)
    \/ \E id \in 1..MaxSchedId : DeleteSchedule(1, id)

SpecForms == InitForms /\ [][NextForms]_vars

\* the ad-hoc slot form
NextSlotForm ==
    \/ \E in \in AdHocSlotInputs :
          OnSlotSubmit(1, in.date, in.startTime, in.endTime)
    \/ \E id \in 1..MaxSlotId : DeleteSlot(1, id)

SpecSlotForm == InitForms /\ [][NextSlotForm]_vars

ScheduleFormErrors ==
    {"Please select at least one day", "End time must be after start time"}

\* the form of practitioner d breaks a rule of the schedule: no weekday is
\* selected, or the end is not later in the day than the start
BreaksScheduleRules(d) ==
    \/ account[d].selectedWeekdays = <<>>
    \/ LET s == account[d].scheduleForm.start_time
           e == account[d].scheduleForm.end_time
       IN  (s[1] - 48) * 600 + (s[2] - 48) * 60 + (s[4] - 48) * 10 + (s[5] - 48)
              >= (e[1] - 48) * 600 + (e[2] - 48) * 60 + (e[4] - 48) * 10 + (e[5] - 48)

\* C18: every schedule row inserted by the form has start_time < end_time
\* and a non-empty set of weekdays within 0..6, and is inserted from a form
\* that breaks neither rule; a submission that is turned down inserts
\* nothing, shows an error, and comes from a form that breaks a rule
C18_ScheduleRowsWellFormed ==
    [][ \A d \in Doctors :
          /\ \A r \in recurring_schedules' \ recurring_schedules :
                r.doctor_id = d =>
                    /\ r.start_time < r.end_time
                    /\ r.weekdays # {}
                    /\ r.weekdays \subseteq 0..6
                    /\ ~BreaksScheduleRules(d)
                    /\ account'[d].error = ""
          /\ (/\ account'[d] # account[d]
              /\ account'[d].scheduleForm = account[d].scheduleForm
              /\ account'[d].selectedWeekdays = account[d].selectedWeekdays
              /\ storeVars' = storeVars)
                => /\ BreaksScheduleRules(d)
                   /\ account'[d].error \in ScheduleFormErrors ]_vars

\* with one schedule stored, a form with a weekday selected and 09:25 to
\* 09:00 has been turned down
C18_Witness ==
    /\ account[1].error = "End time must be after start time"
    /\ account[1].selectedWeekdays # <<>>
    /\ account[1].scheduleForm.start_time = TimeText(9, 25)
    /\ account[1].scheduleForm.end_time = TimeText(9, 0)
    /\ \E r \in recurring_schedules : r.start_time = 540 /\ r.end_time = 565

C20_AdHocSlotOrdered ==
    [][ \A r \in time_slots' \ time_slots : r.start_time < r.end_time ]_vars


\* C21: a sign-up that ends without a redirect while its username is held by
\* another practitioner's row shows the username conflict message, whether the pre-check or
\* the insert found it; a booking insert refused by the slot uniqueness
\* constraint shows that the slot is no longer available, and a booking
\* insert refused for another reason shows the generic message
C21_ConflictsHaveOwnMessage ==
    [][ /\ \A k \in Visitors :
            (/\ signupPage[k].pc \in {"checking", "inserting"}
             /\ signupPage'[k].pc = "idle"
             /\ signupPage'[k].redirect = ""
             /\ \E r \in DoctorsWithUsername(signupPage[k].username) :
                   r.id # signupPage[k].user)
                => signupPage'[k].error = UsernameTakenMessage
        /\ \A p \in Patients :
            (/\ booking[p].pc = "inserting"
             /\ booking'[p].pc = "ready")
                => booking'[p].error =
                      IF UniqueViolation(booking[p].submitted)
                      THEN SlotTakenBookingMessage
                      ELSE FailedBookingMessage ]_vars


(***************************************************************************)
(* The authenticated screens, opened with and without a session.           *)
(***************************************************************************)
\* principal 1 has completed the profile, principal 2 has not, principal 3
\* has no doctor record yet
ScreenUsers ==
    { [ id |-> u, email |-> Email(<<"d", "r">>, ToString(u)),
        username |-> RegisteredUsername(u), confirmed |-> TRUE ] : u \in UserIds }

ScreenDoctors ==
    { [ id |-> 1, username |-> RegisteredUsername(1), profile_completed |-> TRUE,
        email |-> Email(<<"d", "r">>, "1"), tier |-> "pro", full_name |-> "Ann" ],
      [ id |-> 2, username |-> RegisteredUsername(2), profile_completed |-> FALSE,
        email |-> Email(<<"d", "r">>, "2"), tier |-> "free", full_name |-> "" ] }

InitScreens ==
    /\ NoPractice
    /\ usernameUnique = TRUE
    /\ emailConfirmation = TRUE
    /\ auth_users = ScreenUsers
    /\ doctors = ScreenDoctors
    /\ nextUserId = MaxUserId + 1
    /\ IdentityIdle

NextScreens ==
    \/ \E u \in UserIds : FetchDoctorData(1, u)
    \/ OpenAccountSignedOut(1)
    \/ AccountNoUser(1)
    \/ AccountSelect(1)
    \/ AccountInsert(1)
    \/ \E u \in UserIds \cup {NoUser} : OpenDashboard(1, u)
    \/ DashboardGetUser(1)
    \/ DashboardSelect(1)
    \/ \E u \in UserIds \cup {NoUser} : OpenAppointments(1, u)
    \/ AppointmentsGetUser(1)
    \/ AppointmentsSelect(1)
    \/ AppointmentsFetched(1)
    \/ \E u \in UserIds \cup {NoUser} : SigninSubmit(1, u)
    \/ SigninAuth(1)
    \/ SigninSelect(1)

SpecScreens == InitScreens /\ [][NextScreens]_vars

\* C22: a load of an authenticated screen that finishes without a session
\* has redirected to the sign-in page and does not show the screen or its
\* waiting view
C22_SignedOutRedirects ==
    /\ (accountLoad[1].pc = "done" /\ accountLoad[1].user = NoUser)
          => accountLoad[1].redirect = "/signin"
    /\ (dashboard[1].pc = "done" /\ dashboard[1].user = NoUser)
          => dashboard[1].redirect = "/signin"
    /\ (apptLoad[1].pc = "done" /\ apptLoad[1].user = NoUser)
          => apptLoad[1].redirect = "/signin"


\* C23: a practitioner whose row has profile_completed = false is never
\* shown the dashboard: the dashboard does not render for such a row, and
\* the sign-in page and the auth callback send to /dashboard only a
\* practitioner whose row has profile_completed = true
C23_DashboardGated ==
    /\ \A t \in Tabs :
          DashboardView(t) = "dashboard"
             => \A d \in dashboard[t].doctor : d.profile_completed
    /\ \A k \in Visitors :
          signinPage[k].redirect = "/dashboard"
             => \E d \in DoctorsWithId(signinPage[k].user) : d.profile_completed
    /\ \A u \in UserIds :
          callback[u].redirect = "/dashboard"
             => \E d \in DoctorsWithId(u) : d.profile_completed


(***************************************************************************)
(* The booking page opened for any username, over a store with slots.      *)
(***************************************************************************)
\* the usernames in the URLs patients open: practitioner 3 does not exist
UrlUsernames == {1, 2, 3}

BookableSlots == StoredSlots({1, 4})

InitBookingPage ==
    /\ today = 0
    /\ fkPolicy = "restrict"
    /\ time_slots = BookableSlots
    /\ appointments = {}
    /\ recurring_schedules = {}
    /\ nextSlotId = Cardinality(BookableSlots) + 1
    /\ nextApptId = 1
    /\ nextSchedId = 1
    /\ ClosedPages
    /\ RegisteredAccounts

NextBookingPage ==
    \/ \E p \in Patients, n \in UrlUsernames : OpenPage(p, n)
    \/ \E p \in Patients : FetchDoctorAndSlots(p)
    \/ \E p \in Patients, i \in 1..MaxSlotId : SelectSlot(p, i)
    \/ \E p \in Patients : OnSubmit(p)
    \/ \E p \in Patients : InsertAppointment(p)
    \/ \E p \in Patients : BookAnother(p)

SpecBookingPage == InitBookingPage /\ [][NextBookingPage]_vars

\* C24: a load of /{username} for a username no practitioner row has ends in
\* the not-found view with no practitioner set and no slots listed, and from
\* the not-found view no booking is submitted
C24_UnknownUsernameNotFound ==
    [][ \A p \in Patients :
          /\ (/\ booking[p].pc = "loading"
              /\ booking'[p].pc # "loading"
              /\ \A d \in doctors : d.username # UrlUsername(booking[p].username))
                => /\ NotFoundView(p)'
                   /\ booking'[p].doctor = NoDoctor
                   /\ booking'[p].timeSlots = <<>>
                   /\ booking'[p].selectedSlot = NoSlot
          /\ NotFoundView(p)
                => /\ booking'[p].pc \in {"ready", "loading"}
                   /\ \A a \in appointments' \ appointments : a.patient # p
                   /\ booking'[p].pc = "ready" => booking'[p] = booking[p] ]_vars

\* one patient looks at the not-found view while the other has booked
C24_Witness ==
    /\ NotFoundView(1)
    /\ booking[1].username = 3
    /\ booking[2].success
    /\ appointments # {}


(***************************************************************************)
(* Practitioners load the account page and save their profiles.            *)
(***************************************************************************)
ProfileNames == {"Ann", "Bo"}

NextProfileSave ==
    \/ \E t \in Tabs : \E u \in UserIds : FetchDoctorData(t, u)
    \/ \E t \in Tabs : AccountSelect(t)
    \/ \E t \in Tabs : AccountInsert(t)
    \/ \E t \in Tabs : \E u \in UserIds \cup {NoUser} : \E n \in ProfileNames :
          OnProfileSubmit(t, u, n)
    \/ \E t \in Tabs : ProfileSaved(t)

SpecProfileSave == InitScreens /\ [][NextProfileSave]_vars

\* C25: every step keeps every practitioner row, with its id, username,
\* e-mail and tier as they were
C25_IdentityFieldsKept ==
    [][ \A d \in doctors : \E e \in doctors' :
          /\ e.id = d.id
          /\ e.username = d.username
          /\ e.email = d.email
          /\ e.tier = d.tier ]_vars

\* practitioner 1 (tier pro) has saved a new name from one tab and
\* practitioner 2 has completed the profile from the other
C25_Witness ==
    /\ \E d \in doctors : d.id = 1 /\ d.full_name = "Bo" /\ d.tier = "pro"
    /\ \E d \in doctors : d.id = 2 /\ d.profile_completed
    /\ \E t \in Tabs : accountLoad[t].redirect = "/dashboard"


(***************************************************************************)
(* Store calls that fail: a taken slot, a referenced slot, a store that     *)
(* turns a status update down.                                             *)
(***************************************************************************)
NextStoreFailure ==
    \/ PatientNext({1}, 1)
    \/ \E id \in 1..MaxSlotId : DeleteSlot(1, id)
    \/ StatusNext({1}, 1)
    \/ \E a \in 1..MaxApptId, st \in Statuses :
          UpdateAppointmentStatusRefused(1, a, st)

SpecStoreFailure == InitBookingPage /\ [][NextStoreFailure]_vars

\* C26: a booking insert the store refuses leaves the page at rest with an
\* error shown, and a status update the store refuses leaves the appointment
\* list with an error shown
C26_FailureShownNoRetry ==
    [][ /\ \A p \in Patients :
            (booking[p].pc = "inserting" /\ booking'[p].pc = "ready")
                => booking'[p].error # ""
        /\ \A s \in Sessions :
            apptLoad'[s].console # apptLoad[s].console
                => apptLoad'[s].error # "" ]_vars


(***************************************************************************)
(* Requests to the auth callback, of every kind.                           *)
(***************************************************************************)
\* principal 3 has no doctor record; the username in its metadata is free,
\* or is practitioner 1's
InitCallback ==
    /\ NoPractice
    /\ usernameUnique = TRUE
    /\ emailConfirmation = TRUE
    /\ \E n \in {1, 3} :
          auth_users = { IF x.id = 3 THEN [x EXCEPT !.username = RegisteredUsername(n)]
                         ELSE x : x \in ScreenUsers }
    /\ doctors = ScreenDoctors
    /\ nextUserId = MaxUserId + 1
    /\ IdentityIdle

NextCallback ==
    \/ \E u \in UserIds : CallbackNoCode(u)
    \/ \E u \in UserIds : CallbackExchangeFailed(u)
    \/ \E u \in UserIds : CallbackNoUser(u)
    \/ \E u \in UserIds : CallbackExchange(u)
    \/ \E u \in UserIds : CallbackSelect(u)
    \/ \E u \in UserIds : CallbackInsert(u)
    \/ \E u \in UserIds : CallbackThrown(u)

SpecCallback == InitCallback /\ [][NextCallback]_vars

\* the redirect the rules of C27 give to the request that ends in this step
CallbackRuled(u) ==
    IF callback'[u].event \in {"no code", "no user"} THEN "/signin"
    ELSE IF callback'[u].event = "bad code" THEN "/signin?error=auth_error"
    ELSE IF callback[u].pc = "creating"
         THEN IF DoctorsWithId(u)' # DoctorsWithId(u)
              THEN "/accounts?welcome=true" ELSE "/signin?error=setup_error"
    ELSE IF \E d \in DoctorsWithId(u) : d.profile_completed THEN "/dashboard"
    ELSE "/accounts?complete=true"

\* a request of principal u's slot ends in this step
CallbackEnds(u) == callback'[u] # callback[u] /\ callback'[u].pc = "done"

\* C27 as stated: every request ends in the redirect the rules give
C27_CallbackRedirects ==
    [][ \A u \in UserIds : CallbackEnds(u) => callback'[u].redirect = CallbackRuled(u) ]_vars

\* C27, with the exception path: a request whose handler throws ends in
\* /signin?error=callback_error, and every other request in the redirect the
\* rules give
C27_CallbackRedirectsOrCallbackError ==
    [][ \A u \in UserIds : CallbackEnds(u) =>
          callback'[u].redirect =
              IF callback'[u].event = "thrown" THEN "/signin?error=callback_error"
              ELSE CallbackRuled(u) ]_vars

\* the three principals' requests have ended in three different ways: the
\* dashboard, the completion page, and the welcome of a created record
C27_Witness ==
    /\ callback[1].redirect = "/dashboard"
    /\ callback[2].redirect = "/accounts?complete=true"
    /\ callback[3].redirect = "/accounts?welcome=true"
    /\ DoctorsWithId(3) # {}


\* C28: every appointment the booking page inserts is confirmed, has the
\* doctor_id of the slot it references, and has that slot's slot_date and
\* start_time as its appointment_date and appointment_time
C28_AppointmentMatchesSlot ==
    [][ \A a \in appointments' \ appointments :
          /\ a.status = "confirmed"
          /\ \E s \in time_slots :
                /\ s.id = a.slot_id
                /\ a.doctor_id = s.doctor_id
                /\ a.appointment_date = s.slot_date
                /\ a.appointment_time = s.start_time ]_vars

\* the two patients have booked with two different practitioners
C28_Witness ==
    /\ \E a \in appointments : a.doctor_id = 1 /\ a.appointment_time = 540
    /\ \E a \in appointments : a.doctor_id = 2
    /\ booking[1].success
    /\ booking[2].success


\* C29: a handler that has finished has lowered its busy flag, and no screen
\* whose loader has finished still shows its waiting view
C29_NoScreenStaysBusy ==
    /\ \A t \in Tabs :
          accountLoad[t].pc = "done"
             => ~accountLoad[t].isLoading /\ ~accountLoad[t].isSaving
    /\ \A s \in Sessions :
          apptLoad[s].pc = "done" => AppointmentsView(s) # "loading"
    /\ \A k \in Visitors :
          signinPage[k].pc = "idle" => ~signinPage[k].isLoading
    /\ \A t \in Tabs :
          dashboard[t].pc = "done" => DashboardView(t) # "loading"


(***************************************************************************)
(* The changelog page over the changelogs a release may ship.              *)
(***************************************************************************)
\* the versions a changelog may name
ChangelogKeys ==
    { Version(1, 0, 0), Version(1, 0, 1), Version(1, 0, 2), Version(1, 1, 0),
      Version(2, 0, 0) }

\* at most this many versions in a changelog
MaxVersions == 3

\* the changelogs: their keys are distinct, in any written order
Changelogs ==
    { c \in UNION { [1..n -> ChangelogKeys] : n \in 0..MaxVersions } :
        \A i, j \in 1..Len(c) : i # j => c[i] # c[j] }

\* version a is a higher version number than version b
VersionHigher(a, b) ==
    \/ a[1] > b[1]
    \/ a[1] = b[1] /\ a[2] > b[2]
    \/ a[1] = b[1] /\ a[2] = b[2] /\ a[3] > b[3]

InitChangelog ==
    /\ today = 0
    /\ fkPolicy = "restrict"
    /\ time_slots = {}
    /\ appointments = {}
    /\ recurring_schedules = {}
    /\ nextSlotId = 1
    /\ nextApptId = 1
    /\ nextSchedId = 1
    /\ ClosedPages
    /\ usernameUnique = TRUE
    /\ emailConfirmation = TRUE
    /\ auth_users = {}
    /\ doctors = {}
    /\ nextUserId = 1
    /\ PagesIdle
    /\ changelog \in Changelogs
    /\ versions = <<>>

NextChangelog == ChangelogPage

SpecChangelog == InitChangelog /\ [][NextChangelog]_vars

\* C30: the changelog page lists the versions latest first: every version
\* it renders is a higher version number than the ones rendered below it
C30_LatestFirst ==
    \A i, j \in 1..Len(versions) :
        i < j => VersionHigher(versions[i], versions[j])

====
